---- MODULE Spec2Model ----
(***************************************************************************)
(* Model of the sparse-interval coverage engine of src/src/day15.rs:       *)
(* Range, AxisProjection, Sensor, Scan, SparseRange and                     *)
(* SparseRangeBuilder.  Ranges are records [min, max]; Option<T> is        *)
(* None / Some(v); a Vec is a sequence; a BTreeSet is a set that is        *)
(* iterated in the order of its derived Ord.                               *)
(***************************************************************************)
EXTENDS Integers, Sequences, FiniteSets, TLC

VARIABLES
    pc,       \* "loading": Scan::new_from_file is reading lines; "ready": the
              \* Scan is built; "builder": a stand-alone SparseRangeBuilder
    sensors,  \* Scan.0, the Vec<Sensor>
    builder,  \* SparseRangeBuilder.0, the BTreeSet<Range>
    sparse,   \* the SparseRange most recently returned by Scan::cut or build()
    cutAt,    \* the axis and line of the Scan::cut that returned `sparse`
    call,     \* the most recent call and its arguments
    ret,      \* what that call returned
    points,   \* the local `beacons` of tuning_frequency (find_beacons' Vec)
    stdout    \* the lines the most recent call wrote to standard output

vars == <<pc, sensors, builder, sparse, cutAt, call, ret, points, stdout>>

----------------------------------------------------------------------------
(* Bounds of the model *)

\* sensor and beacon coordinates are drawn from 0 .. MaxCoord on both axes
MaxCoord == 2
\* at most this many sensors are loaded into a Scan
MaxSensors == 2
\* stand-alone builder: range end points are drawn from 0 .. MaxVal
MaxVal == 4
\* stand-alone builder: at most this many distinct ranges are added
MaxAdds == 4

(* Program constants *)

\* find_beacons prints a progress line for every row divisible by this
ProgressStep == 100000
\* tuning_frequency multiplies x by this
TuningMultiplier == 4000000

----------------------------------------------------------------------------
(* Option<T> *)

None == [tag |-> "None"]
Some(v) == [tag |-> "Some", val |-> v]

(* Result<isize, String>; a String is the sequence of its formatted parts *)

Ok(v) == [tag |-> "Ok", val |-> v]
Err(msg) == [tag |-> "Err", msg |-> msg]

\* a panic (failed assertion, index out of bounds, arithmetic overflow)
Panic(why) == [tag |-> "Panic", why |-> why]

\* the value of a call that returns and may instead panic
Returned(v) == [tag |-> "Returned", val |-> v]

\* the usize 2^64 + n that a negative isize n is cast to
Wrapped(n) == [tag |-> "Wrapped", val |-> n]

Abs(n) == IF n < 0 THEN -n ELSE n
CmpMin(a, b) == IF a <= b THEN a ELSE b
CmpMax(a, b) == IF a >= b THEN a ELSE b

----------------------------------------------------------------------------
(* Point *)

PointNew(x, y) == [x |-> x, y |-> y]

(* Range *)

RangeNew(min, max) == [min |-> min, max |-> max]

\* (max - min + 1) as usize: the cast of a negative n wraps to 2^64 + n,
\* which is kept as Wrapped(n)
RangeLen(r) ==
    IF r.max - r.min + 1 >= 0 THEN r.max - r.min + 1
    ELSE Wrapped(r.max - r.min + 1)

Overlaps(self, other) == self.min <= other.max /\ other.min <= self.max

\* nears() that tests one side only
NearsOneSide(self, other) == self.min = other.max + 1

Nears(self, other) == self.min = other.max + 1 \/ other.min = self.max + 1

JoinTakesOtherMax(self, other) ==
    IF Overlaps(self, other) \/ Nears(self, other)
    THEN [min |-> CmpMin(self.min, other.min), max |-> other.max]
    ELSE Panic("assertion failed")

\* join() without its assertion
JoinWithoutAssert(self, other) ==
    [min |-> CmpMin(self.min, other.min),
     max |-> CmpMax(self.max, other.max)]

Join(self, other) ==
    IF Overlaps(self, other) \/ Nears(self, other)
    THEN [min |-> CmpMin(self.min, other.min),
          max |-> CmpMax(self.max, other.max)]
    ELSE Panic("assertion failed")

\* punch() whose left leftover ends at other.min instead of other.min - 1
PunchLeftKeepsEdge(self, other) ==
    [left  |-> IF self.min < other.min
               THEN Some(RangeNew(self.min, other.min)) ELSE None,
     right |-> IF self.max > other.max
               THEN Some(RangeNew(other.max + 1, self.max)) ELSE None]

\* punch() that tests self.min <= other.min and self.max >= other.max
PunchNotStrict(self, other) ==
    [left  |-> IF self.min <= other.min
               THEN Some(RangeNew(self.min, other.min - 1)) ELSE None,
     right |-> IF self.max >= other.max
               THEN Some(RangeNew(other.max + 1, self.max)) ELSE None]

Punch(self, other) ==
    [left  |-> IF self.min < other.min
               THEN Some(RangeNew(self.min, other.min - 1)) ELSE None,
     right |-> IF self.max > other.max
               THEN Some(RangeNew(other.max + 1, self.max)) ELSE None]

\* impl From<&(isize, isize)> for Range and impl From<(isize, isize)> for
\* Range, which calls it
RangeFrom(r) == [min |-> r[1], max |-> r[2]]

\* impl From<&Range> for RangeInclusive<isize>: min ..= max, ascending
RangeInclusive(r) == r.min .. r.max

\* #[derive(PartialOrd, Ord)] on Range: by min, then by max
RangeLess(a, b) == a.min < b.min \/ (a.min = b.min /\ a.max < b.max)

----------------------------------------------------------------------------
(* AxisProjection: XAxis, YAxis *)

AxisProjections == {"XAxis", "YAxis"}

\* both projections reading x
AxisAlwaysX(ap, p) == p.x

Axis(ap, p) == IF ap = "XAxis" THEN p.x ELSE p.y
Transposed(ap, p) ==
    IF ap = "XAxis" THEN Axis("YAxis", p) ELSE Axis("XAxis", p)

----------------------------------------------------------------------------
(* Sensor *)

\* Sensor::new whose range is the distance along x only
SensorNewXOnly(position, beacon) ==
    [position |-> position, beacon |-> beacon,
     range |-> Abs(position.x - beacon.x)]

\* Sensor::new whose range is the distance along y only
SensorNewYOnly(position, beacon) ==
    [position |-> position, beacon |-> beacon,
     range |-> Abs(position.y - beacon.y)]

SensorNew(position, beacon) ==
    [position |-> position, beacon |-> beacon,
     range |-> Abs(position.x - beacon.x) + Abs(position.y - beacon.y)]

\* Sensor::cut that does not narrow the range by the distance to the anchor
SensorCutNoShift(ap, self, pos) ==
    LET center == Axis(ap, self.position)
        anchor == Transposed(ap, self.position)
        range  == self.range
    IN  IF pos < anchor - range \/ anchor + range < pos
        THEN None
        ELSE Some(RangeNew(center - range, center + range))

\* Sensor::cut whose lower test is pos <= anchor - range
SensorCutLowerInclusive(ap, self, pos) ==
    LET center == Axis(ap, self.position)
        anchor == Transposed(ap, self.position)
        range  == self.range
    IN  IF pos <= anchor - range \/ anchor + range < pos
        THEN None
        ELSE LET shift == Abs(pos - anchor)
             IN  Some(RangeNew(center - range + shift, center + range - shift))

SensorCut(ap, self, pos) ==
    LET center == Axis(ap, self.position)
        anchor == Transposed(ap, self.position)
        range  == self.range
    IN  IF pos < anchor - range \/ anchor + range < pos
        THEN None
        ELSE LET shift == Abs(pos - anchor)
             IN  Some(RangeNew(center - range + shift, center + range - shift))

----------------------------------------------------------------------------
(* SparseRange and SparseRangeBuilder *)

RECURSIVE SumLen(_, _)
SumLen(s, i) == IF i > Len(s) THEN 0 ELSE RangeLen(s[i]) + SumLen(s, i + 1)

SparseLen(self) == SumLen(self, 1)

\* the loop of holes_in_range from the i-th range on; `shard` is what is left
\* of the bound, `result` the holes pushed so far
RECURSIVE HolesLoop(_, _, _, _)
HolesLoop(self, i, shard, result) ==
    IF i > Len(self) THEN result
    ELSE LET filled == self[i] IN
         IF ~Overlaps(filled, shard)
         THEN HolesLoop(self, i + 1, shard, result)
         ELSE LET p == Punch(shard, filled)
                  pushed == IF p.left.tag = "Some"
                            THEN Append(result, p.left.val) ELSE result
              IN  IF p.right.tag = "Some"
                  THEN HolesLoop(self, i + 1, p.right.val, pushed)
                  ELSE pushed

\* the same loop, pushing the shard after it whether or not the last punch
\* consumed it
RECURSIVE HolesLoopShard(_, _, _, _)
HolesLoopShard(self, i, shard, result) ==
    IF i > Len(self) THEN Append(result, shard)
    ELSE LET filled == self[i] IN
         IF ~Overlaps(filled, shard)
         THEN HolesLoopShard(self, i + 1, shard, result)
         ELSE LET p == Punch(shard, filled)
                  pushed == IF p.left.tag = "Some"
                            THEN Append(result, p.left.val) ELSE result
              IN  IF p.right.tag = "Some"
                  THEN HolesLoopShard(self, i + 1, p.right.val, pushed)
                  ELSE Append(pushed, shard)

HolesInRangePushesShard(self, range) == HolesLoopShard(self, 1, range, <<>>)

\* the loop stopping after its first punch, whatever the punch left
RECURSIVE HolesLoopStopsAtFirst(_, _, _, _)
HolesLoopStopsAtFirst(self, i, shard, result) ==
    IF i > Len(self) THEN result
    ELSE LET filled == self[i] IN
         IF ~Overlaps(filled, shard)
         THEN HolesLoopStopsAtFirst(self, i + 1, shard, result)
         ELSE LET p == Punch(shard, filled)
              IN  IF p.left.tag = "Some"
                  THEN Append(result, p.left.val) ELSE result

HolesInRangeStopsAtFirst(self, range) ==
    HolesLoopStopsAtFirst(self, 1, range, <<>>)

\* the loop without the test filled.overlaps(&shard)
RECURSIVE HolesLoopNoOverlapTest(_, _, _, _)
HolesLoopNoOverlapTest(self, i, shard, result) ==
    IF i > Len(self) THEN result
    ELSE LET p == Punch(shard, self[i])
             pushed == IF p.left.tag = "Some"
                       THEN Append(result, p.left.val) ELSE result
         IN  IF p.right.tag = "Some"
             THEN HolesLoopNoOverlapTest(self, i + 1, p.right.val, pushed)
             ELSE pushed

HolesInRangeNoOverlapTest(self, range) ==
    HolesLoopNoOverlapTest(self, 1, range, <<>>)

HolesInRange(self, range) == HolesLoop(self, 1, range, <<>>)

\* the arguments (shard, filled) of the calls of punch made by the loop of
\* holes_in_range from the i-th range on
RECURSIVE PunchCallsLoop(_, _, _)
PunchCallsLoop(self, i, shard) ==
    IF i > Len(self) THEN <<>>
    ELSE LET filled == self[i] IN
         IF ~Overlaps(filled, shard)
         THEN PunchCallsLoop(self, i + 1, shard)
         ELSE LET p == Punch(shard, filled)
              IN  <<[self |-> shard, other |-> filled]>>
                    \o (IF p.right.tag = "Some"
                        THEN PunchCallsLoop(self, i + 1, p.right.val)
                        ELSE <<>>)

PunchCalls(self, range) == PunchCallsLoop(self, 1, range)

BuilderNew == {}

\* add() that keeps the range already held when one starts at the same min
BuilderAddKeepsSameMin(self, range) ==
    IF \E r \in self : r.min = range.min THEN self ELSE self \cup {range}

BuilderAdd(self, range) == self \cup {range}

\* the iteration order of the BTreeSet<Range>
RECURSIVE BTreeIter(_)
BTreeIter(set) ==
    IF set = {} THEN <<>>
    ELSE LET first == CHOOSE r \in set : \A q \in set : q = r \/ RangeLess(r, q)
         IN  <<first>> \o BTreeIter(set \ {first})

\* the loop of build() over the ranges in order; `cursor` is the Option<Range>
RECURSIVE BuildLoop(_, _, _, _)
BuildLoop(ranges, i, cursor, result) ==
    IF i > Len(ranges)
    THEN IF cursor.tag = "Some" THEN Append(result, cursor.val) ELSE result
    ELSE LET range == ranges[i] IN
         IF cursor.tag = "Some"
         THEN LET wip == cursor.val IN
              IF Overlaps(wip, range) \/ Nears(wip, range)
              THEN BuildLoop(ranges, i + 1, Some(Join(wip, range)), result)
              ELSE BuildLoop(ranges, i + 1, Some(range), Append(result, wip))
         ELSE BuildLoop(ranges, i + 1, Some(range), result)

\* build() that joins overlapping ranges only, not adjacent ones
RECURSIVE BuildLoopNoNears(_, _, _, _)
BuildLoopNoNears(ranges, i, cursor, result) ==
    IF i > Len(ranges)
    THEN IF cursor.tag = "Some" THEN Append(result, cursor.val) ELSE result
    ELSE LET range == ranges[i] IN
         IF cursor.tag = "Some"
         THEN LET wip == cursor.val IN
              IF Overlaps(wip, range)
              THEN BuildLoopNoNears(ranges, i + 1, Some(Join(wip, range)), result)
              ELSE BuildLoopNoNears(ranges, i + 1, Some(range), Append(result, wip))
         ELSE BuildLoopNoNears(ranges, i + 1, Some(range), result)

BuildNoNears(self) == BuildLoopNoNears(BTreeIter(self), 1, None, <<>>)

\* build() that forgets to push the last working range
RECURSIVE BuildLoopNoFlush(_, _, _, _)
BuildLoopNoFlush(ranges, i, cursor, result) ==
    IF i > Len(ranges)
    THEN result
    ELSE LET range == ranges[i] IN
         IF cursor.tag = "Some"
         THEN LET wip == cursor.val IN
              IF Overlaps(wip, range) \/ Nears(wip, range)
              THEN BuildLoopNoFlush(ranges, i + 1, Some(Join(wip, range)), result)
              ELSE BuildLoopNoFlush(ranges, i + 1, Some(range), Append(result, wip))
         ELSE BuildLoopNoFlush(ranges, i + 1, Some(range), result)

BuildNoFlush(self) == BuildLoopNoFlush(BTreeIter(self), 1, None, <<>>)

Build(self) == BuildLoop(BTreeIter(self), 1, None, <<>>)

----------------------------------------------------------------------------
(* aoc::io::lines, parser::parse_sensor and impl FromStr for Sensor.        *)
(* A line of the file is a record: whether its bytes are valid UTF-8,       *)
(* whether it matches SENSOR_RE, and the text of the four groups (-?\d+)    *)
(* if it does.  The text of a group is a numeral: a sign and a sequence of  *)
(* decimal digits.                                                          *)

Numeral(neg, digits) == [neg |-> neg, digits |-> digits]

\* the decimal digits of n >= 0
RECURSIVE DigitsOf(_)
DigitsOf(n) == IF n < 10 THEN <<n>> ELSE Append(DigitsOf(n \div 10), n % 10)

\* the text `{}` writes for the integer n
Decimal(n) == IF n < 0 THEN Numeral(TRUE, DigitsOf(0 - n))
              ELSE Numeral(FALSE, DigitsOf(n))

SensorLine(sx, sy, bx, by) ==
    [utf8 |-> TRUE, matches |-> TRUE, caps |-> <<sx, sy, bx, by>>]
OtherLine == [utf8 |-> TRUE, matches |-> FALSE, caps |-> <<>>]
UndecodableLine == [utf8 |-> FALSE, matches |-> FALSE, caps |-> <<>>]

\* aoc::io::read_line: lines.next()?.expect("Cannot read line"); the Lines
\* iterator yields an Err for a line that is not valid UTF-8
ReadLine(line) == IF line.utf8 THEN Some(line) ELSE Panic("Cannot read line")

\* the digits of isize::MAX = 2^63 - 1 and of -isize::MIN = 2^63
IsizeMaxDigits == <<9, 2, 2, 3, 3, 7, 2, 0, 3, 6, 8, 5, 4, 7, 7, 5, 8, 0, 7>>
IsizeMinDigits == <<9, 2, 2, 3, 3, 7, 2, 0, 3, 6, 8, 5, 4, 7, 7, 5, 8, 0, 8>>

RECURSIVE StripZeros(_)
StripZeros(d) == IF Len(d) > 1 /\ d[1] = 0 THEN StripZeros(Tail(d)) ELSE d

\* a > b for digit sequences of the same length
RECURSIVE DigitsGreater(_, _)
DigitsGreater(a, b) ==
    IF a = <<>> THEN FALSE
    ELSE IF a[1] # b[1] THEN a[1] > b[1]
    ELSE DigitsGreater(Tail(a), Tail(b))

RECURSIVE DigitsValue(_, _)
DigitsValue(d, acc) ==
    IF d = <<>> THEN acc ELSE DigitsValue(Tail(d), 10 * acc + d[1])

\* str::parse::<isize>: the value, or an error when it does not fit 64 bits
ParseIsize(numeral) ==
    LET d     == StripZeros(numeral.digits)
        limit == IF numeral.neg THEN IsizeMinDigits ELSE IsizeMaxDigits
    IN  IF Len(d) > Len(limit) \/ (Len(d) = Len(limit) /\ DigitsGreater(d, limit))
        THEN Err(IF numeral.neg THEN "NegOverflow" ELSE "PosOverflow")
        ELSE Ok(IF numeral.neg THEN 0 - DigitsValue(d, 0) ELSE DigitsValue(d, 0))

\* parse_sensor that takes an unparsable group for a line that does not match
ParseSensorNoUnwrap(line) ==
    IF ~line.matches THEN None
    ELSE LET n == [i \in 1 .. 4 |-> ParseIsize(line.caps[i])]
         IN  IF \E i \in 1 .. 4 : n[i].tag = "Err" THEN None
             ELSE Some(SensorNew(PointNew(n[1].val, n[2].val),
                                 PointNew(n[3].val, n[4].val)))

\* None for a line SENSOR_RE does not match; unwrap() panics on a group
\* that parse::<isize> rejects
ParseSensor(line) ==
    IF ~line.matches THEN None
    ELSE LET n == [i \in 1 .. 4 |-> ParseIsize(line.caps[i])]
         IN  IF \E i \in 1 .. 4 : n[i].tag = "Err"
             THEN Panic("called Result::unwrap() on an Err value")
             ELSE Some(SensorNew(PointNew(n[1].val, n[2].val),
                                 PointNew(n[3].val, n[4].val)))

----------------------------------------------------------------------------
(* Scan *)

\* the loop of Scan::cut from the i-th sensor on
RECURSIVE CutLoop(_, _, _, _, _)
CutLoop(ap, self, i, position, b) ==
    IF i > Len(self) THEN b
    ELSE LET c == SensorCut(ap, self[i], position)
         IN  CutLoop(ap, self, i + 1, position,
                     IF c.tag = "Some" THEN BuilderAdd(b, c.val) ELSE b)

ScanCut(ap, self, position) == Build(CutLoop(ap, self, 1, position, BuilderNew))

\* beacons() counting every sensor whose beacon is on the line
BeaconsNotDistinct(ap, self, position) ==
    Cardinality({i \in 1 .. Len(self) :
                    Transposed(ap, self[i].beacon) = position})

Beacons(ap, self, position) ==
    Cardinality({self[i].beacon :
                    i \in {j \in 1 .. Len(self) :
                              Transposed(ap, self[j].beacon) = position}})

\* tiles_without_beacons whose subtraction needs more tiles than beacons
TilesWithoutBeaconsStrict(ap, self, position) ==
    LET n == SparseLen(ScanCut(ap, self, position))
        b == Beacons(ap, self, position)
    IN  IF n > b THEN Returned(n - b)
        ELSE Panic("attempt to subtract with overflow")

\* usize - usize: an underflow panics (the overflow checks of a debug build)
TilesWithoutBeacons(ap, self, position) ==
    LET n == SparseLen(ScanCut(ap, self, position))
        b == Beacons(ap, self, position)
    IN  IF n >= b THEN Returned(n - b)
        ELSE Panic("attempt to subtract with overflow")

\* the elements lo ..= hi in ascending order
Ascending(lo, hi) == [k \in 1 .. (hi - lo + 1) |-> lo + k - 1]

RECURSIVE Flatten(_)
Flatten(ss) == IF ss = <<>> THEN <<>> ELSE Head(ss) \o Flatten(Tail(ss))

RECURSIVE AddAll(_, _, _)
AddAll(b, ranges, i) ==
    IF i > Len(ranges) THEN b ELSE AddAll(BuilderAdd(b, ranges[i]), ranges, i + 1)

\* find_beacons, first loop: the builder after rows y ..= yr.max
RECURSIVE RowsLoop(_, _, _, _, _)
RowsLoop(self, xr, yr, y, b) ==
    IF y > yr.max THEN b
    ELSE RowsLoop(self, xr, yr, y + 1,
                  AddAll(b, HolesInRange(ScanCut("XAxis", self, y), xr), 1))

\* find_beacons, first loop: the progress lines it prints
ProgressLines(yr) ==
    LET ys == Ascending(yr.min, yr.max)
    IN  Flatten([k \in 1 .. Len(ys) |->
            IF ys[k] % ProgressStep = 0
            THEN << <<"  ", (100 * (ys[k] - yr.min)) \div RangeLen(yr), " %">> >>
            ELSE <<>>])

\* the second loop pushing only the first cell of each hole of column x
ColumnPointsFirstCell(self, x, yr) ==
    LET holes == HolesInRange(ScanCut("YAxis", self, x), yr)
    IN  [k \in 1 .. Len(holes) |-> PointNew(x, holes[k].min)]

\* find_beacons, second loop: the points pushed for column x
ColumnPoints(self, x, yr) ==
    LET holes == HolesInRange(ScanCut("YAxis", self, x), yr)
    IN  Flatten([k \in 1 .. Len(holes) |->
            LET ys == Ascending(holes[k].min, holes[k].max)
            IN  [j \in 1 .. Len(ys) |-> PointNew(x, ys[j])]])

FindBeacons(self, xr, yr) ==
    LET ranges == Build(RowsLoop(self, xr, yr, yr.min, BuilderNew))
        found  == Flatten([k \in 1 .. Len(ranges) |->
                      LET xs == Ascending(ranges[k].min, ranges[k].max)
                      IN  Flatten([j \in 1 .. Len(xs) |->
                                      ColumnPoints(self, xs[j], yr)])])
    IN  [points |-> found,
         out    |-> << <<"Searching for candidate x axis">> >>
                    \o ProgressLines(yr)
                    \o << <<"Found ", Len(ranges), " candidate ranges">>,
                          <<"  Range size ", SparseLen(ranges)>> >>
                    \o [k \in 1 .. Len(found) |->
                           <<"  Found point [", found[k].x, ", ", found[k].y, "]">>]]

\* tuning_frequency without the test for an empty list: beacons[0] panics
TuningResultNoEmptyCheck(beacons) ==
    LET count == Len(beacons)
    IN  IF count > 1 THEN Err(<<count, " beacons found">>)
        ELSE IF count = 0 THEN Panic("index out of bounds")
        ELSE Ok(beacons[1].x * TuningMultiplier + beacons[1].y)

\* tuning_frequency that answers with the first candidate when there are several
TuningResultFirstOfMany(beacons) ==
    LET count == Len(beacons)
    IN  IF count = 0 THEN Err(<<"No beacon found">>)
        ELSE Ok(beacons[1].x * TuningMultiplier + beacons[1].y)

\* the result tuning_frequency computes from the list find_beacons returned
TuningResult(beacons) ==
    LET count == Len(beacons)
    IN  IF count = 0 THEN Err(<<"No beacon found">>)
        ELSE IF count > 1 THEN Err(<<count, " beacons found">>)
        ELSE Ok(beacons[1].x * TuningMultiplier + beacons[1].y)

----------------------------------------------------------------------------
(* Inputs *)

Coord == 0 .. MaxCoord
\* the coordinates of the lines and of the ends of the areas queried
QueryCoord == -1 .. MaxCoord + 1

\* the lines of a file written from sensors and beacons on the grid
SensorLines == {SensorLine(Decimal(sx), Decimal(sy), Decimal(bx), Decimal(by)) :
                    sx \in Coord, sy \in Coord, bx \in Coord, by \in Coord}

\* the bounding areas queried: Range values with min <= max
Areas == {RangeNew(lo, hi) : lo \in 0 .. MaxCoord + 1, hi \in 0 .. MaxCoord + 1}
             \cap {r \in [min : Int, max : Int] : r.min <= r.max}

ValidRanges == {r \in [min : 0 .. MaxVal, max : 0 .. MaxVal] : r.min <= r.max}

NoCall == [op |-> "none"]

----------------------------------------------------------------------------
(* Scan::new_from_file: one step per line read, then the end of the file *)

ReadSensorLine ==
    /\ pc = "loading"
    /\ Len(sensors) < MaxSensors
    /\ \E line \in SensorLines :
          LET parsed == ParseSensor(line)
          IN  sensors' = IF parsed.tag = "Some"
                         THEN Append(sensors, parsed.val) ELSE sensors
    /\ UNCHANGED <<pc, builder, sparse, cutAt, call, ret, points, stdout>>

ReadOtherLine ==
    /\ pc = "loading"
    /\ LET parsed == ParseSensor(OtherLine)
       IN  sensors' = IF parsed.tag = "Some"
                      THEN Append(sensors, parsed.val) ELSE sensors
    /\ UNCHANGED <<pc, builder, sparse, cutAt, call, ret, points, stdout>>

EndOfFile ==
    /\ pc = "loading"
    /\ pc' = "ready"
    /\ UNCHANGED <<sensors, builder, sparse, cutAt, call, ret, points, stdout>>

(* Scan::new_from_file on any file: the lines read so far are kept in      *)
(* `call`.  A panic unwinds new_from_file: the Vec is dropped and no Scan   *)
(* is returned.                                                             *)

MaxLines == 3

\* the texts of a group: 0, -1, 02, 2^63 and a numeral of twenty digits
LoadNumerals ==
    {Decimal(0), Decimal(0 - 1), Numeral(FALSE, <<0, 2>>),
     Numeral(FALSE, IsizeMinDigits), Numeral(TRUE, [i \in 1 .. 20 |-> 9])}

LoadLines ==
    {SensorLine(sx, Decimal(1), Decimal(1), by) :
        sx \in LoadNumerals, by \in LoadNumerals}
        \cup {OtherLine, UndecodableLine}

LoadLine ==
    /\ pc = "loading"
    /\ call.op = "new_from_file"
    /\ Len(call.lines) < MaxLines
    /\ \E line \in LoadLines :
          LET read   == ReadLine(line)
              parsed == IF read.tag = "Panic" THEN read ELSE ParseSensor(read.val)
          IN  /\ call' = [call EXCEPT !.lines = Append(@, line)]
              /\ IF parsed.tag = "Panic"
                 THEN /\ pc' = "panicked"
                      /\ sensors' = <<>>
                      /\ ret' = parsed
                 ELSE /\ pc' = pc
                      /\ sensors' = IF parsed.tag = "Some"
                                    THEN Append(sensors, parsed.val) ELSE sensors
                      /\ ret' = ret
    /\ UNCHANGED <<builder, sparse, cutAt, points, stdout>>

LoadEnd ==
    /\ pc = "loading"
    /\ call.op = "new_from_file"
    /\ pc' = "loaded"
    /\ ret' = Returned(sensors)
    /\ UNCHANGED <<sensors, builder, sparse, cutAt, call, points, stdout>>

(* The queries on a Scan.  A run issues one query on the Scan it loaded, as  *)
(* main does; holes_in_range is then applied to the SparseRange returned.   *)

CallCut ==
    /\ pc = "ready"
    /\ call = NoCall
    /\ \E ap \in AxisProjections, position \in QueryCoord :
          /\ call' = [op |-> "cut", ap |-> ap, position |-> position]
          /\ sparse' = ScanCut(ap, sensors, position)
          /\ cutAt' = Some([ap |-> ap, position |-> position])
          /\ ret' = sparse'
    /\ points' = <<>>
    /\ stdout' = <<>>
    /\ UNCHANGED <<pc, sensors, builder>>

CallTilesWithoutBeacons ==
    /\ pc = "ready"
    /\ call = NoCall
    /\ \E ap \in AxisProjections, position \in QueryCoord :
          /\ call' = [op |-> "tiles_without_beacons", ap |-> ap,
                      position |-> position]
          /\ ret' = TilesWithoutBeacons(ap, sensors, position)
    /\ sparse' = <<>>
    /\ cutAt' = None
    /\ points' = <<>>
    /\ stdout' = <<>>
    /\ UNCHANGED <<pc, sensors, builder>>

CallTuningFrequency ==
    /\ pc = "ready"
    /\ call = NoCall
    /\ \E area \in Areas :
          LET fb == FindBeacons(sensors, area, area)
          IN  /\ call' = [op |-> "tuning_frequency", area |-> area]
              /\ points' = fb.points
              /\ stdout' = fb.out
              /\ ret' = TuningResult(fb.points)
    /\ sparse' = <<>>
    /\ cutAt' = None
    /\ UNCHANGED <<pc, sensors, builder>>

(* main: the Scan is loaded, then the puzzle chosen on the command line is  *)
(* answered with println!.  The box (0, 4_000_000) and the row 2_000_000    *)
(* are scaled to the grid: the box keeps 0 as its minimum and holds the     *)
(* whole grid, the row is the middle of the box.                            *)

MainAreaMax == MaxCoord + 1
MainRow == MainAreaMax \div 2

Puzzles == {"P1", "P2"}

\* the value of main's match and what it leaves on the standard output;
\* `?` on an Err returns it from main before println! runs
CallMain ==
    /\ pc = "ready"
    /\ call = NoCall
    /\ \E puzzle \in Puzzles :
          /\ call' = [op |-> "main", puzzle |-> puzzle]
          /\ IF puzzle = "P1"
             THEN LET tiles == TilesWithoutBeacons("XAxis", sensors, MainRow)
                  IN  /\ points' = <<>>
                      /\ stdout' = IF tiles.tag = "Returned"
                                   THEN << <<tiles.val>> >> ELSE <<>>
                      /\ ret' = IF tiles.tag = "Returned"
                                THEN Ok("()") ELSE tiles
             ELSE LET area   == RangeFrom(<<0, MainAreaMax>>)
                      fb     == FindBeacons(sensors, area, area)
                      result == TuningResult(fb.points)
                  IN  /\ points' = fb.points
                      /\ stdout' = IF result.tag = "Ok"
                                   THEN fb.out \o << <<result.val>> >>
                                   ELSE fb.out
                      /\ ret' = IF result.tag = "Ok" THEN Ok("()") ELSE result
    /\ sparse' = <<>>
    /\ cutAt' = None
    /\ UNCHANGED <<pc, sensors, builder>>

(* Several queries on one Scan, each through &self.  `call` keeps the log   *)
(* of the queries made: the query, the Scan it was made on, its result.     *)

MaxQueries == 3

Queries ==
    {[op |-> op, ap |-> "XAxis", position |-> MainRow] :
        op \in {"cut", "beacons", "tiles_without_beacons"}}
        \cup {[op |-> "tuning_frequency", area |-> RangeFrom(<<0, MainRow>>)]}

QueryResult(self, q) ==
    IF q.op = "cut" THEN Returned(ScanCut(q.ap, self, q.position))
    ELSE IF q.op = "beacons" THEN Returned(Beacons(q.ap, self, q.position))
    ELSE IF q.op = "tiles_without_beacons"
         THEN TilesWithoutBeacons(q.ap, self, q.position)
    ELSE TuningResult(FindBeacons(self, q.area, q.area).points)

QueryLog == IF call.op = "queries" THEN call.log ELSE <<>>

\* a tuning_frequency that takes the first sensor out of the Scan
CallQueryDrains ==
    /\ pc = "ready"
    /\ call.op \in {"none", "queries"}
    /\ Len(QueryLog) < MaxQueries
    /\ \E q \in Queries :
          LET result == QueryResult(sensors, q)
          IN  /\ call' = [op |-> "queries",
                          log |-> Append(QueryLog, [query |-> q, scan |-> sensors,
                                                    result |-> result])]
              /\ ret' = result
              /\ stdout' = IF q.op = "tuning_frequency"
                           THEN stdout \o FindBeacons(sensors, q.area, q.area).out
                           ELSE stdout
              /\ sensors' = IF q.op = "tuning_frequency" /\ sensors # <<>>
                            THEN Tail(sensors) ELSE sensors
    /\ UNCHANGED <<pc, builder, sparse, cutAt, points>>

CallQuery ==
    /\ pc = "ready"
    /\ call.op \in {"none", "queries"}
    /\ Len(QueryLog) < MaxQueries
    /\ \E q \in Queries :
          LET result == QueryResult(sensors, q)
          IN  /\ call' = [op |-> "queries",
                          log |-> Append(QueryLog, [query |-> q, scan |-> sensors,
                                                    result |-> result])]
              /\ ret' = result
              /\ stdout' = IF q.op = "tuning_frequency"
                           THEN stdout \o FindBeacons(sensors, q.area, q.area).out
                           ELSE stdout
    /\ UNCHANGED <<pc, sensors, builder, sparse, cutAt, points>>

(* SparseRange::holes_in_range on the SparseRange last returned *)

CallHolesInRange(bounds) ==
    /\ call.op \in {"cut", "build"}
    /\ \E range \in bounds :
          /\ call' = [op |-> "holes_in_range", range |-> range]
          /\ ret' = HolesInRange(sparse, range)
    /\ UNCHANGED <<pc, sensors, builder, sparse, cutAt, points, stdout>>

ScanHoles == pc = "ready" /\ CallHolesInRange(Areas)

(* A stand-alone SparseRangeBuilder *)

Add ==
    /\ pc = "builder"
    /\ \E range \in ValidRanges :
          /\ Cardinality(BuilderAdd(builder, range)) <= MaxAdds
          /\ builder' = BuilderAdd(builder, range)
    /\ UNCHANGED <<pc, sensors, sparse, cutAt, call, ret, points, stdout>>

\* build(self) consumes the builder
CallBuild ==
    /\ pc = "builder"
    /\ call' = [op |-> "build", added |-> builder]
    /\ sparse' = Build(builder)
    /\ ret' = sparse'
    /\ pc' = "built"
    /\ UNCHANGED <<sensors, builder, cutAt, points, stdout>>

\* the ranges of the SparseRange fed to a fresh builder, which is built
CallRebuild ==
    /\ pc = "built"
    /\ call.op = "build"
    /\ call' = [op |-> "rebuild",
                added |-> AddAll(BuilderNew, sparse, 1)]
    /\ ret' = Build(AddAll(BuilderNew, sparse, 1))
    /\ UNCHANGED <<pc, sensors, builder, sparse, cutAt, points, stdout>>

BuiltHoles == pc = "built" /\ CallHolesInRange(ValidRanges)

\* a.join(&b); a failed assert! panics
JoinCall ==
    /\ call = NoCall
    /\ \E self \in ValidRanges, other \in ValidRanges :
          LET joined == Join(self, other)
          IN  /\ call' = [op |-> "join", self |-> self, other |-> other]
              /\ ret' = IF "tag" \in DOMAIN joined
                        THEN joined ELSE Returned(joined)
    /\ pc' = "joined"
    /\ UNCHANGED <<sensors, builder, sparse, cutAt, points, stdout>>

\* a join called directly, on a builder nothing was added to
BuilderJoin == pc = "builder" /\ builder = BuilderNew /\ JoinCall

\* the arguments (wip, range) of the calls of join made by the loop of
\* build() from the i-th range on
RECURSIVE JoinCallsLoop(_, _, _)
JoinCallsLoop(ranges, i, cursor) ==
    IF i > Len(ranges) THEN <<>>
    ELSE LET range == ranges[i] IN
         IF cursor.tag = "Some"
         THEN LET wip == cursor.val IN
              IF Overlaps(wip, range) \/ Nears(wip, range)
              THEN <<[self |-> wip, other |-> range]>>
                     \o JoinCallsLoop(ranges, i + 1, Some(Join(wip, range)))
              ELSE JoinCallsLoop(ranges, i + 1, Some(range))
         ELSE JoinCallsLoop(ranges, i + 1, Some(range))

JoinCalls(self) == JoinCallsLoop(BTreeIter(self), 1, None)

(* Single calls of the functions of Range *)

CallRangeNew ==
    /\ pc = "unit"
    /\ call = NoCall
    /\ \E min \in 0 .. MaxVal, max \in 0 .. MaxVal :
          /\ call' = [op |-> "Range::new", min |-> min, max |-> max]
          /\ ret' = Returned(RangeNew(min, max))
    /\ UNCHANGED <<pc, sensors, builder, sparse, cutAt, points, stdout>>

CallRangeFrom ==
    /\ pc = "unit"
    /\ call = NoCall
    /\ \E min \in 0 .. MaxVal, max \in 0 .. MaxVal :
          /\ call' = [op |-> "Range::from", min |-> min, max |-> max]
          /\ ret' = Returned(RangeFrom(<<min, max>>))
    /\ UNCHANGED <<pc, sensors, builder, sparse, cutAt, points, stdout>>

CallPunch ==
    /\ pc = "unit"
    /\ call = NoCall
    /\ \E self \in ValidRanges, other \in ValidRanges :
          /\ call' = [op |-> "punch", self |-> self, other |-> other]
          /\ ret' = Punch(self, other)
    /\ UNCHANGED <<pc, sensors, builder, sparse, cutAt, points, stdout>>

CallJoin == pc = "unit" /\ JoinCall

\* overlaps, nears and len of two ranges, each relation taken both ways
CallOverlapsNears ==
    /\ pc = "unit"
    /\ call = NoCall
    /\ \E self \in ValidRanges, other \in ValidRanges :
          /\ call' = [op |-> "overlaps/nears", self |-> self, other |-> other]
          /\ ret' = [overlaps |-> Overlaps(self, other),
                     nears    |-> Nears(self, other),
                     overlapsSwapped |-> Overlaps(other, self),
                     nearsSwapped    |-> Nears(other, self),
                     selfLen  |-> RangeLen(self),
                     otherLen |-> RangeLen(other),
                     joinedLen |-> IF Overlaps(self, other) \/ Nears(self, other)
                                   THEN Some(RangeLen(Join(self, other)))
                                   ELSE None]
    /\ UNCHANGED <<pc, sensors, builder, sparse, cutAt, points, stdout>>

(* Two builders fed the same ranges by different sequences of add calls *)

MaxOrder == 3
OrderVal == 2

OrderRanges == {r \in [min : 0 .. OrderVal, max : 0 .. OrderVal] : r.min <= r.max}

\* the sequences of up to MaxOrder elements of set
AddSequences(set) == UNION {[1 .. n -> set] : n \in 0 .. MaxOrder}

Elements(seq) == {seq[i] : i \in 1 .. Len(seq)}

CallAddsBuild ==
    /\ pc = "unit"
    /\ call = NoCall
    /\ \E adds \in AddSequences(OrderRanges) :
          \E other \in AddSequences(Elements(adds)) :
             /\ Elements(other) = Elements(adds)
             /\ call' = [op |-> "add/build", adds |-> adds, other |-> other]
             /\ ret' = [first  |-> Build(AddAll(BuilderNew, adds, 1)),
                        second |-> Build(AddAll(BuilderNew, other, 1))]
    /\ UNCHANGED <<pc, sensors, builder, sparse, cutAt, points, stdout>>

(* Single calls of Sensor::cut *)

\* the lines a sensor on the grid can reach, and one more on each side
CutCoord == (0 - 2 * MaxCoord - 1) .. (3 * MaxCoord + 1)

CallSensorCut ==
    /\ pc = "unit"
    /\ call = NoCall
    /\ \E px \in Coord, py \in Coord, bx \in Coord, by \in Coord,
          ap \in AxisProjections, pos \in CutCoord :
          LET sensor == SensorNew(PointNew(px, py), PointNew(bx, by))
          IN  /\ call' = [op |-> "Sensor::cut", sensor |-> sensor,
                          ap |-> ap, pos |-> pos]
              /\ ret' = SensorCut(ap, sensor, pos)
    /\ UNCHANGED <<pc, sensors, builder, sparse, cutAt, points, stdout>>

\* the cuts at the same distance on both sides of the sensor's own line
CallSensorCutBothSides ==
    /\ pc = "unit"
    /\ call = NoCall
    /\ \E px \in Coord, py \in Coord, bx \in Coord, by \in Coord,
          ap \in AxisProjections, d \in 0 .. (2 * MaxCoord + 1) :
          LET sensor == SensorNew(PointNew(px, py), PointNew(bx, by))
              anchor == Transposed(ap, sensor.position)
          IN  /\ call' = [op |-> "Sensor::cut both sides", sensor |-> sensor,
                          ap |-> ap, d |-> d]
              /\ ret' = [above |-> SensorCut(ap, sensor, anchor + d),
                         below |-> SensorCut(ap, sensor, anchor - d)]
    /\ UNCHANGED <<pc, sensors, builder, sparse, cutAt, points, stdout>>

\* the seventh sensor of the example scan
ExampleSensor == SensorNew(PointNew(8, 7), PointNew(2, 10))

\* the lines the example sensor reaches, and one more on each side
ExampleCoord == (0 - 3) .. 18

CallSensorCutExample ==
    /\ pc = "unit"
    /\ call = NoCall
    /\ \E ap \in AxisProjections, pos \in ExampleCoord :
          /\ call' = [op |-> "Sensor::cut", sensor |-> ExampleSensor,
                      ap |-> ap, pos |-> pos]
          /\ ret' = SensorCut(ap, ExampleSensor, pos)
    /\ UNCHANGED <<pc, sensors, builder, sparse, cutAt, points, stdout>>

----------------------------------------------------------------------------
(* Specifications *)

Init ==
    /\ pc = "loading"
    /\ sensors = <<>>
    /\ builder = BuilderNew
    /\ sparse = <<>>
    /\ cutAt = None
    /\ call = NoCall
    /\ ret = None
    /\ points = <<>>
    /\ stdout = <<>>

Next ==
    \/ ReadSensorLine
    \/ ReadOtherLine
    \/ EndOfFile
    \/ CallCut
    \/ CallTilesWithoutBeacons
    \/ CallTuningFrequency
    \/ ScanHoles

\* a Scan loaded from a file and queried
Spec == Init /\ [][Next]_vars

NextMain ==
    \/ ReadSensorLine
    \/ ReadOtherLine
    \/ EndOfFile
    \/ CallMain

\* a run of the program: the file is loaded and one puzzle is answered
SpecMain == Init /\ [][NextMain]_vars

InitLoad ==
    /\ pc = "loading"
    /\ sensors = <<>>
    /\ builder = BuilderNew
    /\ sparse = <<>>
    /\ cutAt = None
    /\ call = [op |-> "new_from_file", lines |-> <<>>]
    /\ ret = None
    /\ points = <<>>
    /\ stdout = <<>>

NextLoad ==
    \/ LoadLine
    \/ LoadEnd

\* Scan::new_from_file on a file of up to MaxLines lines of any kind
SpecLoad == InitLoad /\ [][NextLoad]_vars

NextQueries ==
    \/ ReadSensorLine
    \/ ReadOtherLine
    \/ EndOfFile
    \/ CallQuery

\* a Scan loaded from a file and queried up to MaxQueries times
SpecQueries == Init /\ [][NextQueries]_vars

InitBuilder ==
    /\ pc = "builder"
    /\ sensors = <<>>
    /\ builder = BuilderNew
    /\ sparse = <<>>
    /\ cutAt = None
    /\ call = NoCall
    /\ ret = None
    /\ points = <<>>
    /\ stdout = <<>>

NextBuilder ==
    \/ Add
    \/ CallBuild
    \/ CallRebuild
    \/ BuiltHoles
    \/ BuilderJoin

\* a SparseRangeBuilder filled, built, and the SparseRange queried
SpecBuilder == InitBuilder /\ [][NextBuilder]_vars

InitUnit ==
    /\ pc = "unit"
    /\ sensors = <<>>
    /\ builder = BuilderNew
    /\ sparse = <<>>
    /\ cutAt = None
    /\ call = NoCall
    /\ ret = None
    /\ points = <<>>
    /\ stdout = <<>>

NextUnit ==
    \/ CallRangeNew
    \/ CallRangeFrom
    \/ CallPunch
    \/ CallSensorCut
    \/ CallSensorCutExample
    \/ CallSensorCutBothSides
    \/ CallJoin
    \/ CallOverlapsNears
    \/ CallAddsBuild

\* single calls of the functions of Range and Sensor on drawn arguments
SpecUnit == InitUnit /\ [][NextUnit]_vars

----------------------------------------------------------------------------
(* Reference definitions for the properties: coverage by enumeration *)

Dist(p, q) == Abs(p.x - q.x) + Abs(p.y - q.y)

\* p is within the Manhattan radius of some sensor of the Scan
Covered(p) ==
    \E i \in 1 .. Len(sensors) :
        Dist(sensors[i].position, p) <= Dist(sensors[i].position, sensors[i].beacon)

BoxCells(area) ==
    {PointNew(x, y) : x \in area.min .. area.max, y \in area.min .. area.max}

Uncovered(area) == {p \in BoxCells(area) : ~Covered(p)}

\* the cell with free coordinate t on the line `position` of axis ap:
\* XAxis lines are rows (y fixed), YAxis lines are columns (x fixed)
LinePoint(ap, position, t) ==
    IF ap = "XAxis" THEN PointNew(t, position) ELSE PointNew(position, t)

\* every covered cell of any line has its free coordinate in this window
Window == (0 - 2 * MaxCoord) .. (3 * MaxCoord)

\* the integers of a sequence of ranges
PointSet(ranges) == UNION {ranges[i].min .. ranges[i].max : i \in 1 .. Len(ranges)}

\* the integers of a set of ranges
UnionOf(set) == UNION {r.min .. r.max : r \in set}

----------------------------------------------------------------------------
(* Properties *)

\* C1: when the box holds exactly one cell (x0, y0) covered by no sensor,
\* tuning_frequency returns Ok(x0 * 4_000_000 + y0), wherever the cell lies.
C1_UniqueGapFound ==
    (call.op = "tuning_frequency" /\ Cardinality(Uncovered(call.area)) = 1)
        => \A p \in Uncovered(call.area) : ret = Ok(p.x * 4000000 + p.y)

\* C2: when the box holds two or more cells covered by no sensor,
\* tuning_frequency returns Err and never Ok.
C2_SeveralGapsErr ==
    (call.op = "tuning_frequency" /\ Cardinality(Uncovered(call.area)) >= 2)
        => ret.tag = "Err"

\* C3: when every cell of the box is covered by some sensor,
\* tuning_frequency returns Err("No beacon found").
C3_NoGapErr ==
    (call.op = "tuning_frequency" /\ Uncovered(call.area) = {})
        => ret = Err(<<"No beacon found">>)

C3_Witness ==
    /\ call.op = "tuning_frequency"
    /\ Len(sensors) = 2
    /\ call.area.min < call.area.max
    /\ Uncovered(call.area) = {}
    /\ ret = Err(<<"No beacon found">>)

\* C4: tiles_without_beacons::<AP>(c) is the number of cells of the line
\* within the radius of some sensor, minus the number of distinct beacon
\* positions on the line.
C4_TilesCount ==
    call.op = "tiles_without_beacons"
        => ret = Returned(
                   Cardinality({t \in Window :
                                   Covered(LinePoint(call.ap, call.position, t))})
                   - Cardinality({b \in {sensors[i].beacon : i \in 1 .. Len(sensors)} :
                                   \E t \in Window :
                                       b = LinePoint(call.ap, call.position, t)}))

\* two different sensors share a beacon that lies on the line queried
C4_Witness ==
    /\ call.op = "tiles_without_beacons"
    /\ Len(sensors) = 2
    /\ sensors[1].position # sensors[2].position
    /\ sensors[1].beacon = sensors[2].beacon
    /\ \E t \in Window : sensors[1].beacon = LinePoint(call.ap, call.position, t)
    /\ ret.tag = "Returned"
    /\ ret.val > 0

\* C5: for a canonical SparseRange S and a valid bound B, holes_in_range(B)
\* holds exactly the integers of B that are in no range of S, a trailing
\* hole after the last overlapping range included.
C5_HolesAreComplement ==
    call.op = "holes_in_range"
        => PointSet(ret) = RangeInclusive(call.range) \ PointSet(sparse)

\* C6: with zero sensors, Scan::cut(c).holes_in_range(B) is the one hole B.
C6_NoSensorsOneHole ==
    (pc = "ready" /\ sensors = <<>> /\ call.op = "holes_in_range")
        => ret = <<call.range>>

\* C7: when a single sensor covers every cell of the box, holes_in_range of
\* every row and every column of the box is empty, and find_beacons returns
\* no point.
C7_SingleSensorNoHoles ==
    Len(sensors) = 1 =>
        /\ (call.op = "tuning_frequency" /\ Uncovered(call.area) = {})
               => points = <<>>
        /\ (/\ call.op = "holes_in_range"
            /\ cutAt.tag = "Some"
            /\ Uncovered(call.range) = {}
            /\ cutAt.val.position \in RangeInclusive(call.range))
               => ret = <<>>

C7_Witness ==
    /\ Len(sensors) = 1
    /\ call.op = "holes_in_range"
    /\ cutAt.tag = "Some"
    /\ call.range.min < call.range.max
    /\ Uncovered(call.range) = {}
    /\ cutAt.val.position \in RangeInclusive(call.range)
    /\ ret = <<>>

\* C8: build() returns ranges sorted by min, pairwise disjoint and pairwise
\* non-adjacent: consecutive ranges satisfy r[i].max + 1 < r[i+1].min.
C8_BuildCanonical ==
    call.op = "build"
        => \A i \in 1 .. Len(ret) - 1 : ret[i].max + 1 < ret[i + 1].min

\* adjacent ranges were added and merged, and two ranges remain
C8_Witness ==
    /\ call.op = "build"
    /\ \E a \in call.added, b \in call.added : a.max + 1 = b.min
    /\ Len(ret) = 2
    /\ ret[1].max + 1 < ret[2].min

\* C9: the SparseRange build() returns holds exactly the union of the added
\* ranges, and len() is the number of integers in that union.
C9_BuildIsUnion ==
    call.op = "build"
        => /\ PointSet(ret) = UnionOf(call.added)
           /\ SparseLen(ret) = Cardinality(UnionOf(call.added))

\* nested and overlapping ranges were added
C9_Witness ==
    /\ call.op = "build"
    /\ \E a \in call.added, b \in call.added :
          a # b /\ a.min <= b.min /\ b.max < a.max
    /\ Cardinality(call.added) = 3
    /\ SparseLen(ret) = Cardinality(UnionOf(call.added))

\* C10: the ranges of a SparseRange returned by build(), fed to a fresh
\* builder and built, give an identical sequence of ranges.
C10_BuildIdempotent ==
    call.op = "rebuild" => ret = sparse

C10_Witness ==
    /\ call.op = "rebuild"
    /\ Len(sparse) >= 2
    /\ ret = sparse

\* the integers of an Option<Range>
OptionPoints(o) == IF o.tag = "Some" THEN o.val.min .. o.val.max ELSE {}

\* C11: when b overlaps a, the leftovers of a.punch(b) and the intersection
\* of a and b partition a: the leftovers are disjoint, inside a, outside b,
\* and hold all of a outside b; when b contains a there is no leftover.
C11_PunchPartitions ==
    (/\ call.op = "punch"
     /\ (call.self.min .. call.self.max) \cap (call.other.min .. call.other.max) # {})
        => LET a == call.self.min .. call.self.max
               b == call.other.min .. call.other.max
               l == OptionPoints(ret.left)
               r == OptionPoints(ret.right)
           IN  /\ l \cup r = a \ b
               /\ l \cap r = {}
               /\ ret.left.tag = "Some" => l # {}
               /\ ret.right.tag = "Some" => r # {}
               /\ a \subseteq b => (ret.left = None /\ ret.right = None)

\* b lies strictly inside a: two leftovers
C11_Witness ==
    /\ call.op = "punch"
    /\ call.self.min < call.other.min
    /\ call.other.max < call.self.max
    /\ ret.left = Some([min |-> call.self.min, max |-> call.other.min - 1])
    /\ ret.right = Some([min |-> call.other.max + 1, max |-> call.self.max])

\* C12: when b does not overlap a, a.punch(b) returns a itself as the sole
\* leftover: exactly one of the two results is present and it equals a.
C12_PunchDisjointReturnsSelf ==
    (/\ call.op = "punch"
     /\ (call.self.min .. call.self.max) \cap (call.other.min .. call.other.max) = {})
        => \/ (ret.left = Some(call.self) /\ ret.right = None)
           \/ (ret.left = None /\ ret.right = Some(call.self))

\* C13: every leftover range returned by a.punch(b) has min <= max, whether
\* or not b overlaps a.
C13_PunchLeftoversValid ==
    call.op = "punch"
        => /\ ret.left.tag = "Some" => ret.left.val.min <= ret.left.val.max
           /\ ret.right.tag = "Some" => ret.right.val.min <= ret.right.val.max

\* b does not overlap a and a leftover is returned
C13_Witness ==
    /\ call.op = "punch"
    /\ call.other.max < call.self.min
    /\ ret.right.tag = "Some"
    /\ ret.right.val.min <= ret.right.val.max

\* C16: Range::new(min, max) and Range::from((min, max)) return no Range
\* value when min > max.
C16_NoInvalidRange ==
    (call.op \in {"Range::new", "Range::from"} /\ call.min > call.max)
        => ret.tag # "Returned"

\* the free coordinates of the cells of line pos of axis ap that lie within
\* the Manhattan distance position-beacon of the sensor's position
CellsInReach(ap, position, beacon, pos) ==
    LET r == Dist(position, beacon)
        c == Axis(ap, position)
    IN  {t \in (c - r - 1) .. (c + r + 1) :
            Dist(position, LinePoint(ap, pos, t)) <= r}

\* C14: Sensor::cut::<AP>(c) is None iff no cell of line c is within the
\* sensor's Manhattan radius; otherwise it is the range of exactly the free
\* coordinates of the cells of that line within the radius, which is
\* [center - (r - shift), center + (r - shift)] with shift = |c - anchor|.
C14_SensorCutIsLineCoverage ==
    call.op = "Sensor::cut"
        => LET position == call.sensor.position
               beacon   == call.sensor.beacon
               cells    == CellsInReach(call.ap, position, beacon, call.pos)
               r        == Dist(position, beacon)
               center   == IF call.ap = "XAxis" THEN position.x ELSE position.y
               anchor   == IF call.ap = "XAxis" THEN position.y ELSE position.x
               shift    == Abs(call.pos - anchor)
           IN  /\ ret = None <=> cells = {}
               /\ ret.tag = "Some"
                    => /\ ret.val.min .. ret.val.max = cells
                       /\ ret.val = [min |-> center - (r - shift),
                                     max |-> center + (r - shift)]

\* a cut off the anchor line that is narrower than the full diameter
C14_Witness ==
    /\ call.op = "Sensor::cut"
    /\ call.ap = "YAxis"
    /\ call.pos # call.sensor.position.x
    /\ ret.tag = "Some"
    /\ ret.val.min < ret.val.max
    /\ ret.val.max - ret.val.min < 2 * call.sensor.range

\* C15 as stated: for the sensor at (8,7) with nearest beacon (2,10),
\* cut::<XAxis>(7) returns the range [2, 14].
C15_ExampleCutAsStated ==
    (/\ call.op = "Sensor::cut"
     /\ call.sensor.position = PointNew(8, 7)
     /\ call.sensor.beacon = PointNew(2, 10)
     /\ call.ap = "XAxis"
     /\ call.pos = 7)
        => ret = Some([min |-> 2, max |-> 14])

\* C15: for the sensor at (8,7) with nearest beacon (2,10) (radius 9),
\* cut::<XAxis>(7) returns the range [-1, 17], the full diameter 8 - 9 .. 8 + 9.
C15_ExampleCut ==
    (/\ call.op = "Sensor::cut"
     /\ call.sensor.position = PointNew(8, 7)
     /\ call.sensor.beacon = PointNew(2, 10)
     /\ call.ap = "XAxis"
     /\ call.pos = 7)
        => ret = Some([min |-> 0 - 1, max |-> 17])

C15_Witness ==
    /\ call.op = "Sensor::cut"
    /\ call.sensor.position = PointNew(8, 7)
    /\ call.sensor.beacon = PointNew(2, 10)
    /\ call.sensor.range = 9
    /\ call.ap = "XAxis"
    /\ call.pos = 7
    /\ ret.tag = "Some"

\* C19: with n the length of the candidate list the search returned,
\* tuning_frequency returns Err("No beacon found") iff n = 0,
\* Err("<n> beacons found") iff n > 1, and Ok iff n = 1.
C19_ErrStatesCount ==
    call.op = "tuning_frequency"
        => LET n == Len(points)
           IN  /\ (ret.tag = "Err" /\ Len(ret.msg) = 1
                     /\ ret.msg = <<"No beacon found">>) <=> n = 0
               /\ (ret.tag = "Err" /\ Len(ret.msg) = 2
                     /\ ret.msg = <<n, " beacons found">>) <=> n > 1
               /\ ret.tag = "Ok" <=> n = 1

\* the search ends with several candidates
C19_Witness ==
    /\ call.op = "tuning_frequency"
    /\ Len(points) > 1
    /\ ret = Err(<<Len(points), " beacons found">>)

\* C20: on a Scan with zero sensors no query panics: cut returns the empty
\* SparseRange, tiles_without_beacons returns 0 and tuning_frequency
\* returns a Result.
C20_NoSensorsNoPanic ==
    (pc = "ready" /\ sensors = <<>>)
        => /\ call.op = "cut" => Len(ret) = 0
           /\ call.op = "tiles_without_beacons" => ret = Returned(0)
           /\ call.op = "tuning_frequency" => ret.tag \in {"Ok", "Err"}

\* tiles_without_beacons has run on the Scan with zero sensors
C20_Witness ==
    /\ pc = "ready"
    /\ sensors = <<>>
    /\ call.op = "tiles_without_beacons"
    /\ ret = Returned(0)

\* C17: in Mode 2 a successful run writes exactly one line to the standard
\* output, the integer x * 4_000_000 + y of the point found, and no other
\* line during the search.
C17_SoleLineOfOutput ==
    (call.op = "main" /\ call.puzzle = "P2" /\ ret.tag = "Ok")
        => /\ Len(stdout) = 1
           /\ stdout[1] = <<points[1].x * TuningMultiplier + points[1].y>>

\* the integer a numeral denotes
RECURSIVE NumeralValue(_)
NumeralValue(numeral) ==
    LET d == numeral.digits
        n == Len(d)
    IN  IF n = 1 THEN (IF numeral.neg THEN 0 - d[1] ELSE d[1])
        ELSE 10 * NumeralValue(Numeral(numeral.neg, SubSeq(d, 1, n - 1)))
                + (IF numeral.neg THEN 0 - d[n] ELSE d[n])

\* the sensor a line that matches the pattern describes
LineSensor(line) ==
    [position |-> [x |-> NumeralValue(line.caps[1]), y |-> NumeralValue(line.caps[2])],
     beacon   |-> [x |-> NumeralValue(line.caps[3]), y |-> NumeralValue(line.caps[4])],
     range    |-> Abs(NumeralValue(line.caps[1]) - NumeralValue(line.caps[3]))
                    + Abs(NumeralValue(line.caps[2]) - NumeralValue(line.caps[4]))]

LineMatches(line) == line.matches

\* C18: loading a Scan from a sequence of lines yields exactly the sensors of
\* the lines that match the sensor pattern, in input order: every line given
\* is consumed, a line that does not match adds nothing and removes nothing,
\* and the lines after it are still parsed.
C18_LoadKeepsMatchingLines ==
    call.op = "new_from_file"
        => /\ pc \in {"loading", "loaded"}
           /\ LET m == SelectSeq(call.lines, LineMatches)
              IN  sensors = [k \in 1 .. Len(m) |-> LineSensor(m[k])]
           /\ pc = "loaded" => ret = Returned(sensors)

\* the integers of a range
RangePoints(r) == r.min .. r.max

\* two ranges with no common integer and none of one next to one of the other
Apart(a, b) ==
    /\ RangePoints(a) \cap RangePoints(b) = {}
    /\ ~\E p \in RangePoints(a), q \in RangePoints(b) : p = q + 1 \/ q = p + 1

\* C24: with r the radius and a the anchor of a sensor, for every d in 0..r
\* cut(a + d) = cut(a - d), a range of length 2(r - d) + 1 around the center;
\* at d = r it is the single point [center, center]; at d = r + 1 both cuts
\* are None.
C24_CutSymmetricAndShrinking ==
    call.op = "Sensor::cut both sides"
        => LET position == call.sensor.position
               r      == Dist(position, call.sensor.beacon)
               center == IF call.ap = "XAxis" THEN position.x ELSE position.y
               d      == call.d
           IN  /\ d <= r => /\ ret.above = ret.below
                            /\ ret.above.tag = "Some"
                            /\ ret.above.val.max - ret.above.val.min + 1
                                 = 2 * (r - d) + 1
                            /\ ret.above.val.min + ret.above.val.max = 2 * center
               /\ d = r => ret.above = Some([min |-> center, max |-> center])
               /\ d = r + 1 => (ret.above = None /\ ret.below = None)

\* the cut at the full radius of a sensor that has one is a single point
C24_Witness ==
    /\ call.op = "Sensor::cut both sides"
    /\ call.sensor.range > 1
    /\ call.d = call.sensor.range
    /\ ret.above = ret.below
    /\ ret.above.tag = "Some"
    /\ ret.above.val.min = ret.above.val.max

\* C25: join(a, b) panics on its assertion when a and b neither overlap nor
\* are adjacent; otherwise it returns [min(a.min, b.min), max(a.max, b.max)],
\* whose integers are those of a and of b together; and every call of join
\* made by build() is on two ranges that overlap or are adjacent.
C25_JoinAssertion ==
    /\ call.op = "join"
         => IF Apart(call.self, call.other)
            THEN ret.tag = "Panic"
            ELSE /\ ret = Returned(
                       [min |-> IF call.self.min <= call.other.min
                                THEN call.self.min ELSE call.other.min,
                        max |-> IF call.self.max >= call.other.max
                                THEN call.self.max ELSE call.other.max])
                 /\ RangePoints(ret.val)
                      = RangePoints(call.self) \cup RangePoints(call.other)
    /\ call.op = "build"
         => \A k \in 1 .. Len(JoinCalls(call.added)) :
               ~Apart(JoinCalls(call.added)[k].self, JoinCalls(call.added)[k].other)

\* a build that called join on two adjacent ranges and then on a third
C25_Witness ==
    /\ call.op = "build"
    /\ Len(JoinCalls(call.added)) = 2
    /\ RangePoints(JoinCalls(call.added)[1].self)
         \cap RangePoints(JoinCalls(call.added)[1].other) = {}

\* C26: for all valid ranges a, b: nears(a, b) and overlaps(a, b) are never
\* both true, each is symmetric in its arguments, and when nears(a, b) holds
\* the joined range has length a.len() + b.len().
C26_NearsOverlapsExclusive ==
    call.op = "overlaps/nears"
        => /\ ~(ret.nears /\ ret.overlaps)
           /\ ret.overlaps = ret.overlapsSwapped
           /\ ret.nears = ret.nearsSwapped
           /\ ret.overlaps <=> RangePoints(call.self) \cap RangePoints(call.other) # {}
           /\ ret.nears => ret.joinedLen = Some(ret.selfLen + ret.otherLen)

\* other starts right after self ends
C26_Witness ==
    /\ call.op = "overlaps/nears"
    /\ call.other.min = call.self.max + 1
    /\ ret.nears
    /\ ~ret.overlaps
    /\ ret.joinedLen = Some(ret.selfLen + ret.otherLen)

\* the loop of holes_in_range with the break removed: when a punch leaves no
\* right leftover the shard is kept and the remaining ranges are visited
RECURSIVE HolesLoopNoBreak(_, _, _, _)
HolesLoopNoBreak(self, i, shard, result) ==
    IF i > Len(self) THEN result
    ELSE LET filled == self[i] IN
         IF ~Overlaps(filled, shard)
         THEN HolesLoopNoBreak(self, i + 1, shard, result)
         ELSE LET p == Punch(shard, filled)
                  pushed == IF p.left.tag = "Some"
                            THEN Append(result, p.left.val) ELSE result
              IN  HolesLoopNoBreak(self, i + 1,
                      IF p.right.tag = "Some" THEN p.right.val ELSE shard,
                      pushed)

\* C23: on a canonical SparseRange and any valid bound, holes_in_range
\* returns the holes that the same loop returns when it keeps visiting the
\* remaining ranges instead of breaking.
C23_EarlyStopLosesNothing ==
    (pc = "built" /\ call.op = "holes_in_range")
        => ret = HolesLoopNoBreak(sparse, 1, call.range, <<>>)

\* the loop broke with ranges left to visit, after pushing a hole
C23_Witness ==
    /\ pc = "built"
    /\ call.op = "holes_in_range"
    /\ Len(sparse) = 3
    /\ Len(ret) = 1
    /\ Len(PunchCalls(sparse, call.range)) = 2
    /\ ret = HolesLoopNoBreak(sparse, 1, call.range, <<>>)

\* C29: on a canonical SparseRange S and a valid bound B, an uncovered
\* integer p of B is in a range returned by holes_in_range iff S covers an
\* integer q of B with q > p; the ranges returned are inside B, disjoint from
\* the ranges of S, sorted, pairwise disjoint and pairwise non-adjacent; and
\* punch is only applied to a range that overlaps the shard.
C29_HolesBeforeCoverage ==
    (pc = "built" /\ call.op = "holes_in_range")
        => LET b      == RangePoints(call.range)
               filled == PointSet(sparse)
               calls  == PunchCalls(sparse, call.range)
           IN  /\ \A p \in b \ filled :
                     p \in PointSet(ret)
                        <=> \E q \in b \cap filled : q > p
               /\ PointSet(ret) \subseteq b
               /\ PointSet(ret) \cap filled = {}
               /\ \A k \in 1 .. Len(ret) : ret[k].min <= ret[k].max
               /\ \A k \in 1 .. Len(ret) - 1 : ret[k].max + 1 < ret[k + 1].min
               /\ \A k \in 1 .. Len(calls) :
                     RangePoints(calls[k].self) \cap RangePoints(calls[k].other) # {}

\* two holes are returned and a trailing uncovered part of the bound is not
C29_Witness ==
    /\ pc = "built"
    /\ call.op = "holes_in_range"
    /\ Len(ret) = 2
    /\ call.range.max \notin PointSet(sparse)
    /\ call.range.max \notin PointSet(ret)

\* C22: the result of build() depends only on the set of ranges added: two
\* sequences of add calls that add the same ranges, in any order and with any
\* repetition, give the same SparseRange (so the order in which find_beacons
\* processes its rows does not change its candidate ranges).
C22_BuildIgnoresAddOrder ==
    call.op = "add/build" => ret.first = ret.second

\* two ranges added in one order, and in the other order with one repeated
C22_Witness ==
    /\ call.op = "add/build"
    /\ Len(call.adds) = 2
    /\ Len(call.other) = 3
    /\ call.other[1] = call.adds[2]
    /\ call.other[2] = call.adds[1]
    /\ Len(ret.first) = 2
    /\ ret.first = ret.second

\* the Scan with x and y swapped in every position and beacon
RECURSIVE SwappedScan(_)
SwappedScan(list) ==
    IF list = <<>> THEN <<>>
    ELSE <<SensorNew(PointNew(Head(list).position.y, Head(list).position.x),
                     PointNew(Head(list).beacon.y, Head(list).beacon.x))>>
           \o SwappedScan(Tail(list))

OtherAxis(ap) == IF ap = "XAxis" THEN "YAxis" ELSE "XAxis"

\* C27: Scan::cut::<YAxis>(c) equals Scan::cut::<XAxis>(c) on the sensor
\* list with x and y swapped in every position and beacon, and so do beacons
\* and tiles_without_beacons (and the same from XAxis to YAxis).
C27_AxisDuality ==
    /\ (pc = "ready" /\ call.op = "cut")
         => ret = ScanCut(OtherAxis(call.ap), SwappedScan(sensors), call.position)
    /\ (pc = "ready" /\ call.op = "tiles_without_beacons")
         => /\ ret = TilesWithoutBeacons(OtherAxis(call.ap), SwappedScan(sensors),
                                         call.position)
            /\ Beacons(call.ap, sensors, call.position)
                 = Beacons(OtherAxis(call.ap), SwappedScan(sensors), call.position)

\* a column cut of two sensors that is not the row cut of the same Scan
C27_Witness ==
    /\ pc = "ready"
    /\ call.op = "cut"
    /\ call.ap = "YAxis"
    /\ Len(sensors) = 2
    /\ Len(ret) = 2
    /\ ret # ScanCut("XAxis", sensors, call.position)
    /\ ret = ScanCut("XAxis", SwappedScan(sensors), call.position)

\* C28: every point returned by find_beacons(xr, yr) lies in the box and
\* within the radius of no sensor; every cell of every hole of a candidate
\* column is in the list; and no point is listed twice.
C28_SearchSound ==
    call.op = "tuning_frequency"
        => LET area   == call.area
               ranges == Build(RowsLoop(sensors, area, area, area.min, BuilderNew))
           IN  /\ \A k \in 1 .. Len(points) :
                     /\ points[k].x \in area.min .. area.max
                     /\ points[k].y \in area.min .. area.max
                     /\ ~Covered(points[k])
               /\ \A j, k \in 1 .. Len(points) : j # k => points[j] # points[k]
               /\ \A x \in PointSet(ranges) :
                     \A y \in PointSet(HolesInRange(ScanCut("YAxis", sensors, x), area)) :
                        \E k \in 1 .. Len(points) : points[k] = PointNew(x, y)

\* two cells of one column hole are both listed
C28_Witness ==
    /\ call.op = "tuning_frequency"
    /\ Len(sensors) > 0
    /\ \E j, k \in 1 .. Len(points) :
          /\ points[j].x = points[k].x
          /\ points[j].y + 1 = points[k].y
          /\ ~Covered(points[j])
          /\ ~Covered(points[k])

\* the cells of line `position` of axis ap within the radius of some sensor
CoveredOnLine(ap, position) ==
    {t \in Window : Covered(LinePoint(ap, position, t))}

\* the distinct beacons on line `position` of axis ap
BeaconsOnLine(ap, position) ==
    {sensors[i].beacon : i \in 1 .. Len(sensors)}
        \cap {LinePoint(ap, position, t) : t \in Window}

\* C30: on every line the number of distinct beacons is at most the number
\* of covered cells, so the subtraction of tiles_without_beacons does not
\* underflow; and every Range produced by Sensor::cut and every Range of the
\* SparseRange Scan::cut returns has min <= max.
C30_NoUnderflowValidCuts ==
    /\ (pc = "ready" /\ call.op = "tiles_without_beacons")
         => /\ Cardinality(BeaconsOnLine(call.ap, call.position))
                 <= Cardinality(CoveredOnLine(call.ap, call.position))
            /\ Beacons(call.ap, sensors, call.position)
                 <= SparseLen(ScanCut(call.ap, sensors, call.position))
            /\ ret.tag = "Returned"
            /\ ret.val >= 0
    /\ (pc = "ready" /\ call.op = "cut")
         => /\ \A i \in 1 .. Len(sensors) :
                  LET c == SensorCut(call.ap, sensors[i], call.position)
                  IN  c.tag = "Some" => c.val.min <= c.val.max
            /\ \A k \in 1 .. Len(ret) : ret[k].min <= ret[k].max

\* every covered cell of the line holds a beacon: the subtraction gives 0
C30_Witness ==
    /\ pc = "ready"
    /\ call.op = "tiles_without_beacons"
    /\ Cardinality(BeaconsOnLine(call.ap, call.position)) = 2
    /\ Cardinality(CoveredOnLine(call.ap, call.position)) = 2
    /\ ret = Returned(0)

\* C21: queries are pure: after any sequence of cut, beacons,
\* tiles_without_beacons and tuning_frequency calls the sensor list is the
\* one every earlier query was made on, and a query made again with the same
\* arguments returns the same result whatever queries ran in between.
C21_QueriesArePure ==
    call.op = "queries"
        => /\ \A i \in 1 .. Len(call.log) : call.log[i].scan = sensors
           /\ \A i, j \in 1 .. Len(call.log) :
                 (call.log[i].query.op = call.log[j].query.op
                    /\ call.log[i].query = call.log[j].query)
                    => call.log[i].result = call.log[j].result

\* a cut made again after a tuning_frequency on a Scan of two sensors
C21_Witness ==
    /\ call.op = "queries"
    /\ Len(sensors) = 2
    /\ Len(call.log) = 3
    /\ call.log[1].query.op = "cut"
    /\ call.log[2].query.op = "tuning_frequency"
    /\ call.log[3].query = call.log[1].query
    /\ Len(call.log[1].result.val) > 0
    /\ call.log[3].result = call.log[1].result

====
